---------------------------- MODULE Spec2Model ----------------------------
(***************************************************************************)
(* A model of src/src/plugin-support.h: the aligned allocation wrappers,   *)
(* the NEON bulk copy / fill, the NEON and generic alpha blend, and the    *)
(* atomic statistics counter.                                              *)
(*                                                                         *)
(* Memory buffers are functions from byte offsets 0..len-1 to 0..255, so   *)
(* that the source's index arithmetic is kept as written.  A NEON register *)
(* is a function from its lane numbers (0..15 for uint8x16_t, 0..7 for     *)
(* uint8x8_t and uint16x8_t) to lane values.                               *)
(***************************************************************************)
EXTENDS Integers, Sequences, FiniteSets, TLC

VARIABLES
    arm,        \* OBS_ARM_OPTIMIZED: TRUE on an __arm64__ build
    \* ---- alpha blend: one input, blended by both paths
    count,      \* the pixel count of the call
    src,        \* source pixels, 4 bytes each
    alpha,      \* alpha plane, one byte per pixel
    alphaB,     \* a second alpha plane that differs from alpha in one pixel
    dst0,       \* destination content before the call
    dstG,       \* destination handed to obs_blend_alpha_generic
    dstN,       \* destination handed to obs_blend_alpha_neon
    dstNB,      \* destination handed to obs_blend_alpha_neon with alphaB
    done,       \* the calls that have returned
    \* ---- bulk copy / fill
    mop, msize, mvalue, msrc, mdst0, mdst, mdone,
    \* ---- frame scenario
    frame, fdata, fsrc, fpc, frow,
    \* ---- aligned allocation
    live,       \* the heap: the set of live blocks [addr, cap]
    handle,     \* the caller's pointer variables
    released,   \* ghost: obs_aligned_free was called on this handle since it was set
    heapStatus, \* "ok", or what a free() of a pointer that is not live has done
    lastCall,   \* the last allocation call and what it returned
    ncalls,     \* number of allocation calls made
    \* ---- atomic counter
    value, updates, inited, tpc, calls, tdelta

blendVars == <<count, src, alpha, alphaB, dst0, dstG, dstN, dstNB, done>>
memVars == <<mop, msize, mvalue, msrc, mdst0, mdst, mdone>>
frameVars == <<frame, fdata, fsrc, fpc, frow>>
allocVars == <<live, handle, released, heapStatus, lastCall, ncalls>>
counterVars == <<value, updates, inited, tpc, calls, tdelta>>
vars == <<arm, blendVars, memVars, frameVars, allocVars, counterVars>>

\* what a step of one part of the header leaves alone
notBlend == <<arm, memVars, frameVars, allocVars, counterVars>>
notMem == <<arm, blendVars, frameVars, allocVars, counterVars>>
notFrame == <<arm, blendVars, memVars, handle, released, heapStatus, lastCall,
              ncalls, counterVars>>
notAlloc == <<arm, blendVars, memVars, frameVars, counterVars>>
notCounter == <<arm, blendVars, memVars, frameVars, allocVars>>

----------------------------------------------------------------------------
(* Bounds of the model *)

MaxPixels == 33
MaxSeed == 2
MaxBytes == 193
MaxWidth == 17
MaxHeight == 2
MaxAddr == 96
MaxHandles == 2
MaxCalls == 4
Threads == 2
Calls == 3
CounterBits == 4

----------------------------------------------------------------------------
(* Byte buffers and NEON intrinsics *)

Bytes == 0..255

EmptyBuf == [k \in {} |-> 0]

\* (uint8_t)x
U8(x) == x % 256

vld1q_u8(buf, off) == [k \in 0..15 |-> buf[off + k]]

vst1q_u8(buf, off, v) ==
    [k \in DOMAIN buf |-> IF k >= off /\ k < off + 16 THEN v[k - off] ELSE buf[k]]

vld1q_u8_x4(buf, off) == [k \in 0..63 |-> buf[off + k]]

vst1q_u8_x4(buf, off, v) ==
    [k \in DOMAIN buf |-> IF k >= off /\ k < off + 64 THEN v[k - off] ELSE buf[k]]

vdupq_n_u8(x) == [k \in 0..15 |-> x]

vdupq_laneq_u8(v, lane) == [k \in 0..15 |-> v[lane]]

vget_low_u8(v) == [k \in 0..7 |-> v[k]]

vget_high_u8(v) == [k \in 0..7 |-> v[k + 8]]

\* widening multiply: 8 x 8 -> 16 bits, 255 * 255 < 2^16
vmull_u8(a, b) == [k \in 0..7 |-> (a[k] * b[k]) % 65536]

\* saturating narrow 16 -> 8 bits
vqmovn_u16(v) == [k \in 0..7 |-> IF v[k] > 255 THEN 255 ELSE v[k]]

vcombine_u8(lo, hi) == [k \in 0..15 |-> IF k < 8 THEN lo[k] ELSE hi[k - 8]]

\* libc memcpy(dst + doff, src + soff, size)
memcpy(dst, doff, s, soff, size) ==
    [k \in DOMAIN dst |->
        IF k >= doff /\ k < doff + size THEN s[soff + (k - doff)] ELSE dst[k]]

\* libc memset(dst + off, value, size): value is converted to unsigned char
memset(dst, off, v, size) ==
    [k \in DOMAIN dst |-> IF k >= off /\ k < off + size THEN U8(v) ELSE dst[k]]

----------------------------------------------------------------------------
(* obs_memcpy_neon, obs_memset_neon *)

RECURSIVE MemcpyLoop(_, _, _, _)
MemcpyLoop(d, s, off, size) ==
    IF size >= 64
    THEN MemcpyLoop(vst1q_u8_x4(d, off, vld1q_u8_x4(s, off)), s, off + 64, size - 64)
    ELSE IF size > 0 THEN memcpy(d, off, s, off, size) ELSE d

ObsMemcpyNeonArm(d, s, size) ==
    IF size >= 64 THEN MemcpyLoop(d, s, 0, size) ELSE memcpy(d, 0, s, 0, size)

ObsMemcpyNeon(d, s, size) ==
    IF arm THEN ObsMemcpyNeonArm(d, s, size) ELSE memcpy(d, 0, s, 0, size)

MemsetChunkDup32(d, off, val) ==
    vst1q_u8(vst1q_u8(vst1q_u8(vst1q_u8(d, off, val), off + 16, val),
                      off + 32, val), off + 32, val)

MemsetChunk(d, off, val) ==
    vst1q_u8(vst1q_u8(vst1q_u8(vst1q_u8(d, off, val), off + 16, val),
                      off + 32, val), off + 48, val)

RECURSIVE MemsetLoop(_, _, _, _, _)
MemsetLoop(d, val, v, off, size) ==
    IF size >= 64
    THEN MemsetLoop(MemsetChunk(d, off, val), val, v, off + 64, size - 64)
    ELSE IF size > 0 THEN memset(d, off, v, size) ELSE d

ObsMemsetNeonArm(d, v, size) ==
    IF size >= 64 THEN MemsetLoop(d, vdupq_n_u8(U8(v)), v, 0, size)
    ELSE memset(d, 0, v, size)

ObsMemsetNeon(d, v, size) ==
    IF arm THEN ObsMemsetNeonArm(d, v, size) ELSE memset(d, 0, v, size)

----------------------------------------------------------------------------
(* obs_blend_alpha_generic, obs_blend_alpha_neon *)

\* (d * (255 - a) + s * a) / 255 in int, stored to a uint8_t
BlendChannel(d, s, a) == U8((d * (255 - a) + s * a) \div 255)

BlendPixel(d, s, a, i) ==
    [k \in DOMAIN d |->
        IF k >= i * 4 /\ k <= i * 4 + 3 THEN BlendChannel(d[k], s[k], a[i]) ELSE d[k]]

RECURSIVE ScalarLoop(_, _, _, _, _)
ScalarLoop(d, s, a, i, n) ==
    IF i < n THEN ScalarLoop(BlendPixel(d, s, a, i), s, a, i + 1, n) ELSE d

ObsBlendAlphaGeneric(d, s, a, n) == ScalarLoop(d, s, a, 0, n)

NeonGroup(d, s, a, i) ==
    LET src_data == vld1q_u8(s, i * 4)
        dst_data == vld1q_u8(d, i * 4)
        alpha_data == vld1q_u8(a, i)
        alpha_expanded == <<vdupq_laneq_u8(alpha_data, 0),
                            vdupq_laneq_u8(alpha_data, 1),
                            vdupq_laneq_u8(alpha_data, 2),
                            vdupq_laneq_u8(alpha_data, 3)>>
        blend_lo == vmull_u8(vget_low_u8(src_data), vget_low_u8(alpha_expanded[1]))
        blend_hi == vmull_u8(vget_high_u8(src_data), vget_high_u8(alpha_expanded[1]))
        result == vcombine_u8(vqmovn_u16(blend_lo), vqmovn_u16(blend_hi))
    IN  vst1q_u8(d, i * 4, result)

RECURSIVE NeonLoop(_, _, _, _, _)
NeonLoop(d, s, a, i, n) ==
    IF i + 16 <= n THEN NeonLoop(NeonGroup(d, s, a, i), s, a, i + 16, n)
    ELSE ScalarLoop(d, s, a, i, n)

ObsBlendAlphaNeonArm(d, s, a, n) == NeonLoop(d, s, a, 0, n)

ObsBlendAlphaNeon(d, s, a, n) ==
    IF arm THEN ObsBlendAlphaNeonArm(d, s, a, n) ELSE ObsBlendAlphaGeneric(d, s, a, n)

----------------------------------------------------------------------------
(* Inputs *)

RepBytes == <<0, 1, 127, 128, 254, 255>>

\* a byte pattern over the representative channel / alpha values
RepByte(seed, k) == RepBytes[((seed + k * (seed + 1)) % 6) + 1]

\* a byte pattern in which neighbouring bytes and 64-byte chunks differ
MemByte(seed, k) == (seed * 101 + 3 * k) % 256

Seeds == 0..MaxSeed

----------------------------------------------------------------------------
(* Blend harness: one input, blended by obs_blend_alpha_generic, by        *)
(* obs_blend_alpha_neon, and by obs_blend_alpha_neon again with an alpha   *)
(* plane that differs in one pixel.  The three calls work on separate      *)
(* copies of the destination.                                              *)

BlendIdle ==
    /\ count = 0
    /\ src = EmptyBuf /\ alpha = EmptyBuf /\ alphaB = EmptyBuf
    /\ dst0 = EmptyBuf /\ dstG = EmptyBuf /\ dstN = EmptyBuf /\ dstNB = EmptyBuf
    /\ done = {}

BlendInit ==
    /\ count \in 0..MaxPixels
    /\ \E ss \in Seeds : src = [k \in 0..(4 * count - 1) |-> RepByte(ss, k)]
    /\ \E sd \in Seeds : dst0 = [k \in 0..(4 * count - 1) |-> RepByte(sd, k + 3)]
    /\ \E sa \in Seeds : alpha = [i \in 0..(count - 1) |-> RepByte(sa, i)]
    /\ alphaB = alpha
    /\ dstG = dst0 /\ dstN = dst0 /\ dstNB = dst0
    /\ done = {}

BlendGeneric ==
    /\ done = {}
    /\ dstG' = ObsBlendAlphaGeneric(dstG, src, alpha, count)
    /\ done' = {"generic"}
    /\ UNCHANGED <<count, src, alpha, alphaB, dst0, dstN, dstNB>>
    /\ UNCHANGED notBlend

BlendNeon ==
    /\ done = {"generic"}
    /\ dstN' = ObsBlendAlphaNeon(dstN, src, alpha, count)
    /\ done' = {"generic", "neon"}
    /\ UNCHANGED <<count, src, alpha, alphaB, dst0, dstG, dstNB>>
    /\ UNCHANGED notBlend

\* the same call on the same dst and src, alpha changed in pixel j only
BlendNeonB ==
    /\ done = {"generic", "neon"}
    /\ \E j \in 0..(count - 1) :
          /\ alphaB' = [alpha EXCEPT ![j] = 255 - alpha[j]]
          /\ dstNB' = ObsBlendAlphaNeon(dstNB, src, alphaB', count)
    /\ done' = {"generic", "neon", "neonB"}
    /\ UNCHANGED <<count, src, alpha, dst0, dstG, dstN>>
    /\ UNCHANGED notBlend

----------------------------------------------------------------------------
(* Bulk copy / fill harness: one call of obs_memcpy_neon or                *)
(* obs_memset_neon on a destination that is two bytes longer than the      *)
(* byte count.                                                             *)

MemIdle ==
    /\ mop = "none" /\ msize = 0 /\ mvalue = 0
    /\ msrc = EmptyBuf /\ mdst0 = EmptyBuf /\ mdst = EmptyBuf
    /\ mdone = FALSE

FillValues == {0, 171, 511, -1}

MemInit ==
    /\ mop \in {"memcpy", "memset"}
    /\ msize \in 0..MaxBytes
    /\ mvalue \in (IF mop = "memset" THEN FillValues ELSE {0})
    /\ \E s \in Seeds : msrc = [k \in 0..(msize + 1) |-> MemByte(s, k)]
    /\ mdst0 = [k \in 0..(msize + 1) |-> MemByte(MaxSeed + 1, k + 7)]
    /\ mdst = mdst0
    /\ mdone = FALSE

MemcpyCall ==
    /\ mop = "memcpy" /\ ~mdone
    /\ mdst' = ObsMemcpyNeon(mdst, msrc, msize)
    /\ mdone' = TRUE
    /\ UNCHANGED <<mop, msize, mvalue, msrc, mdst0>>
    /\ UNCHANGED notMem

MemsetCall ==
    /\ mop = "memset" /\ ~mdone
    /\ mdst' = ObsMemsetNeon(mdst, mvalue, msize)
    /\ mdone' = TRUE
    /\ UNCHANGED <<mop, msize, mvalue, msrc, mdst0>>
    /\ UNCHANGED notMem

----------------------------------------------------------------------------
(* posix_memalign / free as the platform provides them, and the wrappers   *)
(* obs_aligned_alloc, obs_aligned_free.  The heap is the set of live       *)
(* blocks; block bases are the multiples of 16 up to MaxAddr.  An          *)
(* operation with several possible outcomes is the set of its outcomes.    *)

NULL == 0

HeapAddrs == {a \in 1..MaxAddr : a % 16 = 0}

BlockCap(size) == IF size = 0 THEN 16 ELSE ((size + 15) \div 16) * 16

IsPowerOfTwo(x) == \E e \in 0..12 : x = 2 ^ e

Overlaps(heap, a, cap) ==
    \E b \in heap : a < b.addr + b.cap /\ b.addr < a + cap

\* int posix_memalign(void **memptr, size_t alignment, size_t size):
\* EINVAL (22) unless alignment is a power of two and a multiple of
\* sizeof(void *) = 8; ENOMEM (12) when the request cannot be met; for size
\* 0 the pointer stored is a null pointer or a unique pointer.  memptr is
\* left as it was (NULL, line 107) on an error.
PosixMemalign(heap, alignment, size) ==
    IF ~IsPowerOfTwo(alignment) \/ alignment % 8 # 0
    THEN {[rc |-> 22, ptr |-> NULL, cap |-> 0]}
    ELSE {[rc |-> 12, ptr |-> NULL, cap |-> 0]}
         \cup {[rc |-> 0, ptr |-> a, cap |-> BlockCap(size)] :
                 a \in {x \in HeapAddrs :
                          x % alignment = 0 /\ ~Overlaps(heap, x, BlockCap(size))}}
         \cup (IF size = 0 THEN {[rc |-> 0, ptr |-> NULL, cap |-> 0]} ELSE {})

\* void *malloc(size_t size): any free block, 16-byte aligned
Malloc(heap, size) ==
    {[rc |-> 12, ptr |-> NULL, cap |-> 0]}
    \cup {[rc |-> 0, ptr |-> a, cap |-> BlockCap(size)] :
            a \in {x \in HeapAddrs : ~Overlaps(heap, x, BlockCap(size))}}

ObsAlignedAllocMalloc(heap, alignment, size) ==
    {[ptr |-> o.ptr, cap |-> o.cap] : o \in Malloc(heap, size)}

ObsAlignedAlloc(heap, alignment, size) ==
    {[ptr |-> IF o.rc # 0 THEN NULL ELSE o.ptr,
      cap |-> IF o.rc # 0 THEN 0 ELSE o.cap] :
        o \in PosixMemalign(heap, alignment, size)}

IsLive(heap, ptr) == \E b \in heap : b.addr = ptr

\* void free(void *ptr): nothing for a null pointer, releases the block that
\* starts at ptr, and is undefined for any other pointer: the allocator's
\* data is corrupted or the process is aborted.
free(heap, ptr) ==
    IF ptr = NULL THEN {[live |-> heap, status |-> "ok"]}
    ELSE IF IsLive(heap, ptr)
    THEN {[live |-> {b \in heap : b.addr # ptr}, status |-> "ok"]}
    ELSE {[live |-> heap, status |-> s] : s \in {"corrupt", "aborted"}}

\* a release that reads the block header in front of ptr before anything else
ObsAlignedFreeNoNull(heap, ptr) ==
    IF IsLive(heap, ptr)
    THEN {[live |-> {b \in heap : b.addr # ptr}, status |-> "ok"]}
    ELSE {[live |-> heap, status |-> s] : s \in {"corrupt", "aborted"}}

ObsAlignedFree(heap, ptr) == free(heap, ptr)

Handles == 1..MaxHandles

Alignments == {1, 8, 24, 64}

Sizes == {0, 16, 40}

NoCall == [op |-> "none", h |-> 0, alignment |-> 0, size |-> 0, ptr |-> NULL]

AllocIdle ==
    /\ live = {}
    /\ handle = [h \in Handles |-> NULL]
    /\ released = [h \in Handles |-> FALSE]
    /\ heapStatus = "ok"
    /\ lastCall = NoCall
    /\ ncalls = 0

AllocInit == AllocIdle

\* handle[h] = obs_aligned_alloc(alignment, size), on a handle that holds
\* nothing the caller still owns
AllocCall(h, alignment, size) ==
    /\ heapStatus = "ok" /\ ncalls < MaxCalls
    /\ handle[h] = NULL \/ released[h]
    /\ \E o \in ObsAlignedAlloc(live, alignment, size) :
          /\ live' = (IF o.ptr = NULL THEN live
                      ELSE live \cup {[addr |-> o.ptr, cap |-> o.cap]})
          /\ handle' = [handle EXCEPT ![h] = o.ptr]
          /\ lastCall' = [op |-> "alloc", h |-> h, alignment |-> alignment,
                          size |-> size, ptr |-> o.ptr]
    /\ released' = [released EXCEPT ![h] = FALSE]
    /\ ncalls' = ncalls + 1
    /\ UNCHANGED heapStatus
    /\ UNCHANGED notAlloc

\* obs_aligned_free(handle[h]): the pointer is passed by value, the caller's
\* handle keeps the address
FreeCall(h) ==
    /\ heapStatus = "ok" /\ ncalls < MaxCalls
    /\ \E o \in ObsAlignedFree(live, handle[h]) :
          /\ live' = o.live
          /\ heapStatus' = o.status
    /\ released' = [released EXCEPT ![h] = TRUE]
    /\ lastCall' = [op |-> "free", h |-> h, alignment |-> 0, size |-> 0,
                    ptr |-> handle[h]]
    /\ ncalls' = ncalls + 1
    /\ UNCHANGED handle
    /\ UNCHANGED notAlloc

----------------------------------------------------------------------------
(* The frame scenario: allocate the pixel storage of a width x height      *)
(* frame of 4-byte pixels on a 64-byte boundary, fill it with 0x00, blend  *)
(* a source frame onto it row by row with an alpha plane of 255.           *)

FrameIdle ==
    /\ frame = [width |-> 0, height |-> 0, stride |-> 0, format |-> 0,
                data |-> NULL, data_size |-> 0]
    /\ fdata = EmptyBuf /\ fsrc = EmptyBuf
    /\ fpc = "idle" /\ frow = 0

\* seed 0 is a red frame (255, 0, 0, 255)
FrameByte(seed, k) ==
    IF seed = 0 THEN (IF k % 4 \in {0, 3} THEN 255 ELSE 0) ELSE RepByte(seed, k)

FrameInit ==
    /\ \E w \in 0..MaxWidth, h \in 1..MaxHeight, pad \in {0, 4} :
          frame = [width |-> w, height |-> h, stride |-> 4 * w + pad, format |-> 0,
                   data |-> NULL, data_size |-> 0]
    /\ \E s \in Seeds :
          fsrc = [k \in 0..(frame.stride * frame.height - 1) |-> FrameByte(s, k)]
    /\ fdata = EmptyBuf
    /\ fpc = "alloc" /\ frow = 0

\* the bytes the allocation hands over are not initialized
FrameAlloc ==
    /\ fpc = "alloc"
    /\ \E o \in ObsAlignedAlloc(live, 64, frame.stride * frame.height) :
          IF o.ptr = NULL
          THEN /\ fpc' = "failed"
               /\ UNCHANGED <<frame, fdata, live>>
          ELSE /\ frame' = [frame EXCEPT !.data = o.ptr,
                                         !.data_size = frame.stride * frame.height]
               /\ live' = live \cup {[addr |-> o.ptr, cap |-> o.cap]}
               /\ \E g \in Seeds :
                     fdata' = [k \in 0..(frame.stride * frame.height - 1) |->
                                  MemByte(g, k + 1)]
               /\ fpc' = "fill"
    /\ UNCHANGED <<fsrc, frow>>
    /\ UNCHANGED notFrame

FrameFill ==
    /\ fpc = "fill"
    /\ fdata' = ObsMemsetNeon(fdata, 0, frame.data_size)
    /\ fpc' = "blend"
    /\ UNCHANGED <<frame, fsrc, frow, live>>
    /\ UNCHANGED notFrame

Row(buf, off, len) == [k \in 0..(len - 1) |-> buf[off + k]]

PutRow(buf, off, row) ==
    [k \in DOMAIN buf |->
        IF k >= off /\ k - off \in DOMAIN row THEN row[k - off] ELSE buf[k]]

FrameBlendRow ==
    /\ fpc = "blend" /\ frow < frame.height
    /\ LET off == frow * frame.stride
           len == 4 * frame.width
           opaque == [i \in 0..(frame.width - 1) |-> 255]
       IN  fdata' = PutRow(fdata, off,
                           ObsBlendAlphaNeon(Row(fdata, off, len), Row(fsrc, off, len),
                                             opaque, frame.width))
    /\ frow' = frow + 1
    /\ UNCHANGED <<frame, fsrc, fpc, live>>
    /\ UNCHANGED notFrame

FrameDone ==
    /\ fpc = "blend" /\ frow = frame.height
    /\ fpc' = "done"
    /\ UNCHANGED <<frame, fdata, fsrc, frow, live>>
    /\ UNCHANGED notFrame

----------------------------------------------------------------------------
(* obs_atomic_counter_t.  The two fields are uint64_t; the model keeps     *)
(* CounterBits bits of each, so that the wrap-around of atomic_fetch_add   *)
(* is within reach of the bounds.  Each thread makes Calls calls of        *)
(* obs_atomic_counter_increment; a call is two atomic steps.               *)

Modulus == 2 ^ CounterBits

ThreadIds == 1..Threads

\* what the storage may hold before obs_atomic_counter_init
Garbage == {0, 5, 9}

CounterIdle ==
    /\ value = 0 /\ updates = 0 /\ inited = 2
    /\ tpc = [t \in ThreadIds |-> "idle"]
    /\ calls = [t \in ThreadIds |-> Calls]
    /\ tdelta = [t \in ThreadIds |-> 0]

CounterInit ==
    /\ value \in Garbage /\ updates \in Garbage /\ inited = 0
    /\ tpc = [t \in ThreadIds |-> "idle"]
    /\ calls = [t \in ThreadIds |-> 0]
    /\ tdelta = [t \in ThreadIds |-> 0]

\* inited: 0 before the call, 1 after the first store, 2 once it has returned
CounterStores ==
    \/ /\ inited = 0
       /\ value' = 0
       /\ inited' = 1
       /\ UNCHANGED <<updates, tpc, calls, tdelta>>
    \/ /\ inited = 1
       /\ updates' = 0
       /\ inited' = 2
       /\ UNCHANGED <<value, tpc, calls, tdelta>>

\* the increment written as a load and a store of value: not atomic
IncrementLoadStore(t, delta) ==
    \/ /\ tpc[t] = "idle" /\ calls[t] < Calls
       /\ tdelta' = [tdelta EXCEPT ![t] = value]
       /\ tpc' = [tpc EXCEPT ![t] = "added"]
       /\ UNCHANGED <<value, updates, calls, inited>>
    \/ /\ tpc[t] = "added"
       /\ value' = (tdelta[t] + delta) % Modulus
       /\ updates' = (updates + 1) % Modulus
       /\ tpc' = [tpc EXCEPT ![t] = "idle"]
       /\ calls' = [calls EXCEPT ![t] = calls[t] + 1]
       /\ UNCHANGED <<tdelta, inited>>

\* the two adds in the other order
IncrementUpdatesFirst(t, delta) ==
    \/ /\ tpc[t] = "idle" /\ calls[t] < Calls
       /\ updates' = (updates + 1) % Modulus
       /\ tdelta' = [tdelta EXCEPT ![t] = delta]
       /\ tpc' = [tpc EXCEPT ![t] = "added"]
       /\ UNCHANGED <<value, calls, inited>>
    \/ /\ tpc[t] = "added"
       /\ value' = (value + tdelta[t]) % Modulus
       /\ tpc' = [tpc EXCEPT ![t] = "idle"]
       /\ calls' = [calls EXCEPT ![t] = calls[t] + 1]
       /\ UNCHANGED <<updates, tdelta, inited>>

\* atomic_store where atomic_fetch_add was meant
IncrementStore(t, delta) ==
    \/ /\ tpc[t] = "idle" /\ calls[t] < Calls
       /\ value' = delta
       /\ tdelta' = [tdelta EXCEPT ![t] = delta]
       /\ tpc' = [tpc EXCEPT ![t] = "added"]
       /\ UNCHANGED <<updates, calls, inited>>
    \/ /\ tpc[t] = "added"
       /\ updates' = (updates + 1) % Modulus
       /\ tpc' = [tpc EXCEPT ![t] = "idle"]
       /\ calls' = [calls EXCEPT ![t] = calls[t] + 1]
       /\ UNCHANGED <<value, tdelta, inited>>

\* thread t in obs_atomic_counter_increment(counter, delta): first
\* atomic_fetch_add(&counter->value, delta), then
\* atomic_fetch_add(&counter->updates, 1); tdelta[t] is the call's argument
ObsAtomicCounterIncrement(t, delta) ==
    \/ /\ tpc[t] = "idle" /\ calls[t] < Calls
       /\ value' = (value + delta) % Modulus
       /\ tdelta' = [tdelta EXCEPT ![t] = delta]
       /\ tpc' = [tpc EXCEPT ![t] = "added"]
       /\ UNCHANGED <<updates, calls, inited>>
    \/ /\ tpc[t] = "added"
       /\ updates' = (updates + 1) % Modulus
       /\ tpc' = [tpc EXCEPT ![t] = "idle"]
       /\ calls' = [calls EXCEPT ![t] = calls[t] + 1]
       /\ UNCHANGED <<value, tdelta, inited>>

\* obs_atomic_counter_init, called before the threads start
ObsAtomicCounterInit == CounterStores /\ UNCHANGED notCounter

ObsAtomicCounterGet == value

ObsAtomicCounterGetUpdates == updates

\* the threads start once obs_atomic_counter_init has returned
Increment(t, delta) ==
    /\ inited = 2
    /\ ObsAtomicCounterIncrement(t, delta)
    /\ UNCHANGED notCounter

Deltas == {0, 1, Modulus - 1}

----------------------------------------------------------------------------
(* Specifications, one per part of the header *)

InitBlend ==
    /\ arm \in BOOLEAN
    /\ BlendInit /\ MemIdle /\ FrameIdle /\ AllocIdle /\ CounterIdle

NextBlend == BlendGeneric \/ BlendNeon \/ BlendNeonB

SpecBlend == InitBlend /\ [][NextBlend]_vars

InitMem ==
    /\ arm \in BOOLEAN
    /\ BlendIdle /\ MemInit /\ FrameIdle /\ AllocIdle /\ CounterIdle

NextMem == MemcpyCall \/ MemsetCall

SpecMem == InitMem /\ [][NextMem]_vars

InitFrame ==
    /\ arm \in BOOLEAN
    /\ BlendIdle /\ MemIdle /\ FrameInit /\ AllocIdle /\ CounterIdle

NextFrame == FrameAlloc \/ FrameFill \/ FrameBlendRow \/ FrameDone

SpecFrame == InitFrame /\ [][NextFrame]_vars

InitAlloc ==
    /\ arm \in BOOLEAN
    /\ BlendIdle /\ MemIdle /\ FrameIdle /\ AllocInit /\ CounterIdle

NextAlloc ==
    \/ \E h \in Handles, al \in Alignments, sz \in Sizes : AllocCall(h, al, sz)
    \/ \E h \in Handles : FreeCall(h)

SpecAlloc == InitAlloc /\ [][NextAlloc]_vars

InitCounter ==
    /\ arm \in BOOLEAN
    /\ BlendIdle /\ MemIdle /\ FrameIdle /\ AllocIdle /\ CounterInit

NextCounter == ObsAtomicCounterInit \/ \E t \in ThreadIds : Increment(t, 1)

SpecCounter == InitCounter /\ [][NextCounter]_vars

NextCounterAny ==
    ObsAtomicCounterInit \/ \E t \in ThreadIds, d \in Deltas : Increment(t, d)

SpecCounterAny == InitCounter /\ [][NextCounterAny]_vars

----------------------------------------------------------------------------
(* Claims *)

\* what the blend formula gives for byte k of the destination
BlendExpected(k) == (dst0[k] * (255 - alpha[k \div 4]) + src[k] * alpha[k \div 4]) \div 255

\* C1: after blend(dst, src, alpha, n), obs_blend_alpha_neon on the vector
\* build and obs_blend_alpha_generic otherwise, every channel of every pixel
\* i < n holds (dst_old * (255 - alpha[i]) + src * alpha[i]) / 255.
C1_BlendMatchesFormula ==
    "neon" \in done => \A k \in 0..(4 * count - 1) : dstN[k] = BlendExpected(k)

\* C2: for identical inputs obs_blend_alpha_neon and obs_blend_alpha_generic
\* leave byte-identical destinations, for every pixel count.
C2_NeonEqualsGeneric ==
    {"generic", "neon"} \subseteq done => dstN = dstG

\* C9: in obs_blend_alpha_neon a pixel's result does not depend on another
\* pixel's alpha (two runs that differ only in alpha[j] agree on every pixel
\* i # j), and every pixel of a 16-pixel group holds its blended value.
C9_PixelUsesOwnAlpha ==
    "neonB" \in done =>
        /\ \A i \in 0..(count - 1) :
              alphaB[i] = alpha[i] =>
                  \A c \in 0..3 : dstNB[4 * i + c] = dstN[4 * i + c]
        /\ \A i \in 0..(16 * (count \div 16) - 1) :
              \A c \in 0..3 : dstN[4 * i + c] = BlendExpected(4 * i + c)

\* C5: after the storage of a frame is filled with 0x00 and every row is
\* blended with an alpha plane of 255, the frame's pixels equal the source's.
C5_OpaqueBlendCopiesSource ==
    fpc = "done" =>
        \A r \in 0..(frame.height - 1) : \A k \in 0..(4 * frame.width - 1) :
            fdata[r * frame.stride + k] = fsrc[r * frame.stride + k]

\* C4: obs_memcpy_neon(dst, src, N) and obs_memset_neon(dst, v, N) leave dst
\* as a byte-wise copy or fill does: bytes below N are the src bytes (the low
\* 8 bits of v), bytes from N on are as before.
C4_BulkMatchesNaive ==
    mdone =>
        \A k \in DOMAIN mdst :
            mdst[k] = (IF k >= msize THEN mdst0[k]
                       ELSE IF mop = "memcpy" THEN msrc[k]
                       ELSE mvalue % 256)

\* a fill of 65 bytes on the vector build: one 64-byte chunk and a remainder
C4_Witness ==
    mdone /\ arm /\ mop = "memset" /\ msize = 65 /\ mvalue = 511 /\ mdst[64] = 255

AllReturned == inited = 2 /\ \A t \in ThreadIds : calls[t] = Calls /\ tpc[t] = "idle"

\* C3: once Threads threads have each returned from Calls calls of
\* obs_atomic_counter_increment(counter, 1) on an initialized counter, both
\* obs_atomic_counter_get and obs_atomic_counter_get_updates return
\* Threads * Calls.
C3_NoLostIncrement ==
    AllReturned =>
        /\ ObsAtomicCounterGet = Threads * Calls
        /\ ObsAtomicCounterGetUpdates = Threads * Calls

C3_Witness == AllReturned /\ value = Threads * Calls /\ Threads * Calls > 1

InFlight == {t \in ThreadIds : tpc[t] = "added"}

\* C10: with delta = 1, in every state of an initialized counter updates is
\* at most value, and value - updates is at most the number of increments
\* between their two atomic adds.
C10_UpdatesNeverAhead ==
    inited = 2 =>
        /\ updates <= value
        /\ value - updates <= Cardinality(InFlight)

\* two increments are between their adds, a third has returned
C10_Witness ==
    inited = 2 /\ Cardinality(InFlight) = 2 /\ value = 3 /\ updates = 1

\* C6 as stated: from an initialized counter on, value and updates never
\* decrease from one state to the next.
C6_NonDecreasing ==
    [][inited = 2 => value' >= value /\ updates' >= updates]_vars

\* C6 amended: updates never decreases, and value decreases only in a step
\* whose add carries out of the word: value + delta reaches the modulus and
\* value becomes value + delta - modulus.
C6_NonDecreasingUnlessWrap ==
    [][inited = 2 =>
          /\ updates' >= updates
          /\ \/ value' >= value
             \/ \E t \in ThreadIds :
                   /\ tpc[t] = "idle" /\ tpc'[t] = "added"
                   /\ value + tdelta'[t] >= Modulus
                   /\ value' = value + tdelta'[t] - Modulus]_vars

\* an increment has just wrapped value
C6_Witness ==
    inited = 2 /\ \E t \in ThreadIds : tpc[t] = "added" /\ value < tdelta[t]

FreeStep == ncalls' = ncalls + 1 /\ lastCall'.op = "free"

\* C7 as stated: obs_aligned_free on a null handle or on a handle that was
\* already released leaves the live allocations as they are and frees no
\* storage twice.
C7_FreeNullOrReleasedIsNoOp ==
    [][FreeStep /\ (handle[lastCall'.h] = NULL \/ released[lastCall'.h]) =>
          live' = live /\ heapStatus' = "ok"]_vars

\* C7 amended: obs_aligned_free on a null handle is a no-op; on a handle that
\* was already released and is not null it is never one: the stale address
\* goes to free(), which releases the block now living there or, with none
\* there, is a double free.
C7_FreeNullIsNoOpReleasedIsNot ==
    [][FreeStep =>
          LET p == handle[lastCall'.h] IN
          /\ p = NULL => live' = live /\ heapStatus' = "ok"
          /\ p # NULL /\ released[lastCall'.h] =>
                \/ IsLive(live, p) /\ live' = {b \in live : b.addr # p}
                                   /\ heapStatus' = "ok"
                \/ ~IsLive(live, p) /\ live' = live /\ heapStatus' # "ok"]_vars

\* a null handle has been released while another allocation is live
C7_Witness ==
    /\ lastCall.op = "free" /\ lastCall.ptr = NULL
    /\ live # {} /\ heapStatus = "ok"

Returned(ptr, size) == \E b \in live : b.addr = ptr /\ b.cap >= size

\* C8 as stated: obs_aligned_alloc returns NULL whenever alignment is not a
\* power of two or size is zero, and a successful return is a multiple of
\* alignment with at least size usable bytes.
C8_AllocContract ==
    lastCall.op = "alloc" =>
        /\ ~IsPowerOfTwo(lastCall.alignment) \/ lastCall.size = 0
              => lastCall.ptr = NULL
        /\ lastCall.ptr # NULL =>
              /\ lastCall.alignment > 0
              /\ lastCall.ptr % lastCall.alignment = 0
              /\ Returned(lastCall.ptr, lastCall.size)

\* C8 amended: obs_aligned_alloc returns NULL whenever alignment is not a
\* power of two, and a non-null return is a multiple of alignment with at
\* least size usable bytes; a size of zero is not refused.
C8_AllocAlignment ==
    lastCall.op = "alloc" =>
        /\ ~IsPowerOfTwo(lastCall.alignment) => lastCall.ptr = NULL
        /\ lastCall.ptr # NULL =>
              /\ lastCall.alignment > 0
              /\ lastCall.ptr % lastCall.alignment = 0
              /\ Returned(lastCall.ptr, lastCall.size)

\* a 40-byte request on a 64-byte boundary has succeeded
C8_Witness ==
    /\ lastCall.op = "alloc" /\ lastCall.alignment = 64 /\ lastCall.size = 40
    /\ lastCall.ptr # NULL

====
